---- MODULE Spec2Model ----
(***************************************************************************)
(* Text-chunking layer of the evaluation framework                         *)
(* (Code/testing_tools/evaluation_framework/splitters/splitters.py).       *)
(*                                                                         *)
(* A Python str is modelled as a sequence of one-character strings, a      *)
(* token sequence as a sequence of integers.  build_splitter is one        *)
(* action; a split call is a begin action followed by one action per       *)
(* loop iteration, so that progress of the loops is visible.               *)
(*                                                                         *)
(* The splitter is used in three ways: by a caller of the library (one     *)
(* call, or a session of repeated calls, a second splitter built with the  *)
(* same arguments and two threads calling split on one instance), and by   *)
(* EvaluationPipeline (core/pipeline.py), which builds it in __init__ and  *)
(* calls it in run on the text returned by LoaderRegistry.load             *)
(* (loaders/registry.py).                                                  *)
(***************************************************************************)
EXTENDS Integers, Sequences, FiniteSets

VARIABLES
    pc,             \* position of the program
    args,           \* arguments of the build_splitter call that just returned
    splitter,       \* the constructed splitter object (or NoSplitter)
    error,          \* message of the raised ValueError (or <<>>)
    text,           \* argument of the running / last split call
    tokens,         \* TokenSplitter.split: tokens
    sentences,      \* SentenceSplitter.split: sentences
    i,              \* loop index of the running loop
    current,        \* SentenceSplitter.split: current
    chunks,         \* local list chunks
    chunk_tokens,   \* TokenSplitter.split: the chunk_tokens slices, in order
    overlapped,     \* SentenceSplitter.split: overlapped
    ret,            \* value returned by the last completed split call
    pipeline,       \* the EvaluationPipeline object and the progress of run
    other,          \* frame of the second thread while it is not running
    memo,           \* [instance, text, ret] of the calls that ran alone
    instances       \* number of splitters built so far

vars == <<pc, args, splitter, error, text, tokens, sentences, i,
          current, chunks, chunk_tokens, overlapped, ret,
          pipeline, other, memo, instances>>

\* what a step of a split call has no access to
outer == <<pipeline, other, memo, instances>>

locals == <<text, tokens, sentences, i, current, chunks, chunk_tokens,
            overlapped, ret>>

----------------------------------------------------------------------------
(* Bounds of the explored inputs *)

MaxLen == 4
MaxChunk == 3
MaxSplitters == 2

----------------------------------------------------------------------------
(* Characters and strings *)

LowerLetters ==
    <<"a","b","c","d","e","f","g","h","i","j","k","l","m",
      "n","o","p","q","r","s","t","u","v","w","x","y","z">>

UpperLetters ==
    <<"A","B","C","D","E","F","G","H","I","J","K","L","M",
      "N","O","P","Q","R","S","T","U","V","W","X","Y","Z">>

Whitespace == {" ", "\n", "\t"}

Terminal == {".", "!", "?"}

Max(a, b) == IF a >= b THEN a ELSE b

Min(a, b) == IF a <= b THEN a ELSE b

\* str.lower() on one character
LowerChar(c) ==
    IF \E k \in 1..Len(UpperLetters) : UpperLetters[k] = c
    THEN LowerLetters[CHOOSE k \in 1..Len(UpperLetters) : UpperLetters[k] = c]
    ELSE c

\* variant of Lower: the string is left as it is
Lower_identity(s) == s

\* str.lower()
Lower(s) == [k \in 1..Len(s) |-> LowerChar(s[k])]

\* Python index normalisation of a slice bound k on a sequence of length n
SliceBound(k, n) == IF k < 0 THEN Max(n + k, 0) ELSE Min(k, n)

\* Python s[lo:hi] (0-based, half-open, negative bounds count from the end)
PySlice(s, lo, hi) ==
    SubSeq(s, SliceBound(lo, Len(s)) + 1, SliceBound(hi, Len(s)))

\* Python s[-k:] for k > 0
PySuffix(s, k) == SubSeq(s, SliceBound(0 - k, Len(s)) + 1, Len(s))

\* str.strip()
Strip(s) ==
    LET nonws == {k \in 1..Len(s) : s[k] \notin Whitespace}
    IN  IF nonws = {} THEN <<>>
        ELSE SubSeq(s, CHOOSE k \in nonws : \A m \in nonws : k <= m,
                       CHOOSE k \in nonws : \A m \in nonws : k >= m)

RECURSIVE Concat(_)
\* "".join(parts)
Concat(parts) ==
    IF parts = <<>> THEN <<>> ELSE Head(parts) \o Concat(Tail(parts))

----------------------------------------------------------------------------
(* The tokenizer (tiktoken cl100k_base, a library used through encode and  *)
(* decode): every character is a token of its own, some character pairs    *)
(* are merged into one token; encode takes the longest vocabulary entry at *)
(* each position, decode concatenates the entries of the tokens.           *)

ByteTable == LowerLetters \o UpperLetters \o <<" ", "\n", "\t", ".", "!", "?">>

Merges == << <<"a","b">>, <<" ","a">>, <<"b",".">>, <<"d","e">>, <<" ","I">> >>

Vocab == [k \in 1..Len(ByteTable) |-> <<ByteTable[k]>>] \o Merges

IsPrefix(p, s) == Len(p) <= Len(s) /\ SubSeq(s, 1, Len(p)) = p

RECURSIVE Encode(_)
\* self.tokenizer.encode(text)
Encode(s) ==
    IF s = <<>> THEN <<>>
    ELSE LET cands == {k \in 1..Len(Vocab) : IsPrefix(Vocab[k], s)}
             best  == CHOOSE k \in cands :
                         \A m \in cands : Len(Vocab[m]) <= Len(Vocab[k])
         IN  <<best>> \o Encode(SubSeq(s, Len(Vocab[best]) + 1, Len(s)))

\* self.tokenizer.decode(chunk_tokens)
Decode(ts) == Concat([k \in 1..Len(ts) |-> Vocab[ts[k]]])

----------------------------------------------------------------------------
(* re.compile(r"(?<=[.!?])\s+").split(s) *)

\* variant of RunEnd: one whitespace character is consumed
RunEnd_single(s, p) == p

\* last index of the whitespace run that starts at index p
RunEnd(s, p) ==
    CHOOSE e \in p..Len(s) :
        /\ \A k \in p..e : s[k] \in Whitespace
        /\ (e = Len(s) \/ s[e + 1] \notin Whitespace)

RECURSIVE ReSplit(_, _, _)
\* pos: position the scan has reached, start: first index of the open piece
ReSplit(s, pos, start) ==
    IF pos > Len(s) THEN << SubSeq(s, start, Len(s)) >>
    ELSE IF pos > 1 /\ s[pos - 1] \in Terminal /\ s[pos] \in Whitespace
         THEN << SubSeq(s, start, pos - 1) >>
              \o ReSplit(s, RunEnd(s, pos) + 1, RunEnd(s, pos) + 1)
         ELSE ReSplit(s, pos + 1, start)

sentence_re_split(s) == ReSplit(s, 1, 1)

----------------------------------------------------------------------------
(* Inputs *)

Str_token == <<"t","o","k","e","n">>
Str_char == <<"c","h","a","r">>
Str_sentence == <<"s","e","n","t","e","n","c","e">>
Str_Token == <<"T","o","k","e","n">>
Str_CHAR == <<"C","H","A","R">>
Str_xml == <<"x","m","l">>
Str_XML == <<"X","M","L">>
Str_SeNtEnCe == <<"S","e","N","t","E","n","C","e">>
Str_TOKENS == <<"T","O","K","E","N","S">>

StrategyNames ==
    {Str_token, Str_char, Str_sentence, Str_Token, Str_CHAR, Str_xml, Str_XML,
     Str_SeNtEnCe, Str_TOKENS}

Alphabet == {"a", "b", ".", " "}

Texts == UNION {[1..n -> Alphabet] : n \in 0..MaxLen}

\* "abcdefghij"
TextAlphabet == <<"a","b","c","d","e","f","g","h","i","j">>

\* "Hi there. How are you? I am fine."
TextGreeting ==
    <<"H","i"," ","t","h","e","r","e","."," ","H","o","w"," ","a","r","e",
      " ","y","o","u","?"," ","I"," ","a","m"," ","f","i","n","e",".">>

\* "ab. . ab."
TextShort == <<"a","b","."," ","."," ","a","b",".">>

\* "a.\n\tb! "
TextBlank == <<"a",".","\n","\t","b","!"," ">>

\* "a . a"
TextSpaced == <<"a"," ","."," ","a">>

\* ". ab."
TextDot == <<"."," ","a","b",".">>

\* ". . ab."
TextPair == <<"."," ","."," ","a","b",".">>

ScenarioTexts ==
    {TextAlphabet, TextGreeting, TextShort, TextBlank, TextSpaced, TextDot,
     TextPair}

\* configurations of the scenarios: chunk_size 5 with overlap 0 and 2,
\* chunk_size 20, and chunk_size 4 with overlap 3
ScenarioChunkSizes == {4, 5, 20}

ScenarioOverlaps == {2, 3}

ChunkSizes == (0..MaxChunk) \cup ScenarioChunkSizes

Overlaps == (0..(MaxChunk - 1)) \cup ScenarioOverlaps

\* texts of a session of repeated calls and of two concurrent calls
SessionTexts == {TextShort, TextDot}

\* chunk sizes of the splitters a session is held with
SessionChunkSizes == {2, 5}

\* texts a splitter with the given chunk_size is called with
InputTexts(cs) ==
    IF cs <= MaxChunk THEN Texts \cup ScenarioTexts ELSE ScenarioTexts

\* "a.txt"
Path_a_txt ==
    <<"a",".","t","x","t">>

\* "a.MD"
Path_a_MD ==
    <<"a",".","M","D">>

\* "a.pdf"
Path_a_pdf ==
    <<"a",".","p","d","f">>

\* "d/a.docx"
Path_a_docx ==
    <<"d","/","a",".","d","o","c","x">>

\* "a.xml"
Path_a_xml ==
    <<"a",".","x","m","l">>

\* "d.txt/a"
Path_a ==
    <<"d",".","t","x","t","/","a">>

\* ".txt"
Path_hidden ==
    <<".","t","x","t">>

\* "b.txt"
Path_b_txt ==
    <<"b",".","t","x","t">>

\* "b.xml"
Path_b_xml ==
    <<"b",".","x","m","l">>

\* the files that exist, with the text their loader extracts
FileSystem ==
    {<<Path_a_txt, TextDot>>, <<Path_a_MD, TextShort>>,
     <<Path_a_pdf, TextSpaced>>, <<Path_a_docx, TextPair>>,
     <<Path_a_xml, TextBlank>>, <<Path_a, TextDot>>,
     <<Path_hidden, TextDot>>}

\* file_path arguments of run
Paths == {f[1] : f \in FileSystem} \cup {Path_b_txt, Path_b_xml}

\* PipelineConfig values: every strategy name with two chunk sizes
PipelineConfigs ==
    {[splitter_type |-> name, chunk_size |-> cs, overlap |-> ov] :
        name \in StrategyNames, cs \in {2, 5}, ov \in {0, 1}}

----------------------------------------------------------------------------
(* State *)

NoArgs == [splitter_type |-> <<>>, chunk_size |-> 0, overlap |-> 0]

NoSplitter == [kind |-> "none", chunk_size |-> 0, overlap |-> 0]

\* TokenSplitter.__init__ (the tokenizer table is the fixed Vocab)
TokenSplitter(cs, ov) ==
    [kind |-> "TokenSplitter", chunk_size |-> cs, overlap |-> ov]

\* variant of CharSplitter: the two arguments are stored the other way round
CharSplitter_swapped(cs, ov) ==
    [kind |-> "CharSplitter", chunk_size |-> ov, overlap |-> cs]

\* CharSplitter.__init__
CharSplitter(cs, ov) ==
    [kind |-> "CharSplitter", chunk_size |-> cs, overlap |-> ov]

\* SentenceSplitter.__init__
SentenceSplitter(cs, ov) ==
    [kind |-> "SentenceSplitter", chunk_size |-> cs, overlap |-> ov]

Str_Unsupported ==
    <<"U","n","s","u","p","p","o","r","t","e","d"," ","s","p","l","i","t",
      "t","e","r","_","t","y","p","e",":"," ">>

\* "File not found: "
Str_FileNotFound ==
    <<"F","i","l","e"," ","n","o","t"," ","f","o","u","n","d",":"," ">>

\* "No loader registered for extension: "
Str_NoLoader ==
    <<"N","o"," ","l","o","a","d","e","r"," ","r","e","g","i","s","t","e",
      "r","e","d"," ","f","o","r"," ","e","x","t","e","n","s","i","o","n",
      ":"," ">>

\* "PyMuPDF is not installed. Install with 'pip install pymupdf'."
\* (the two quotes are backquotes in the source)
Str_NoPyMuPDF ==
    <<"P","y","M","u","P","D","F"," ","i","s"," ","n","o","t"," ","i","n",
      "s","t","a","l","l","e","d","."," ","I","n","s","t","a","l","l"," ",
      "w","i","t","h"," ","'","p","i","p"," ","i","n","s","t","a","l","l",
      " ","p","y","m","u","p","d","f","'",".">>

\* "python-docx is not installed. Install with 'pip install python-docx'."
\* (the two quotes are backquotes in the source)
Str_NoPythonDocx ==
    <<"p","y","t","h","o","n","-","d","o","c","x"," ","i","s"," ","n","o",
      "t"," ","i","n","s","t","a","l","l","e","d","."," ","I","n","s","t",
      "a","l","l"," ","w","i","t","h"," ","'","p","i","p"," ","i","n","s",
      "t","a","l","l"," ","p","y","t","h","o","n","-","d","o","c","x","'",
      ".">>

\* frame of a thread that does not exist
NoFrame ==
    [pc |-> "none", text |-> <<>>, tokens |-> <<>>, sentences |-> <<>>,
     i |-> 0, current |-> <<>>, chunks |-> <<>>, chunk_tokens |-> <<>>,
     overlapped |-> <<>>, ret |-> <<>>]

\* no EvaluationPipeline has been constructed
NoPipeline ==
    [state |-> "none", config |-> NoArgs, registry |-> {},
     file_path |-> <<>>, load_calls |-> 0, loader_calls |-> <<>>,
     raw_text |-> <<>>, gen_calls |-> 0, raised |-> "none",
     message |-> <<>>]

Init ==
    /\ pc = "init"
    /\ args = NoArgs
    /\ splitter = NoSplitter
    /\ error = <<>>
    /\ text = <<>>
    /\ tokens = <<>>
    /\ sentences = <<>>
    /\ i = 0
    /\ current = <<>>
    /\ chunks = <<>>
    /\ chunk_tokens = <<>>
    /\ overlapped = <<>>
    /\ ret = <<>>
    /\ pipeline = NoPipeline
    /\ other = NoFrame
    /\ memo = {}
    /\ instances = 0

\* an exception raised inside EvaluationPipeline.__init__ leaves the
\* constructor: no pipeline object exists
Propagate(p, failed, msg) ==
    IF p.state = "constructing" /\ failed
    THEN [p EXCEPT !.state = "failed", !.raised = "ValueError",
                   !.message = msg]
    ELSE p

\* build_splitter(splitter_type, chunk_size, overlap)
build_splitter(name, cs, ov) ==
    /\ pc = "init"
    /\ args' = [splitter_type |-> name, chunk_size |-> cs, overlap |-> ov]
    /\ LET lowered == Lower(name)
       IN  IF lowered = Str_token
           THEN /\ splitter' = TokenSplitter(cs, ov)
                /\ pc' = "built"
                /\ error' = error
           ELSE IF lowered = Str_char
           THEN /\ splitter' = CharSplitter(cs, ov)
                /\ pc' = "built"
                /\ error' = error
           ELSE IF lowered = Str_sentence
           THEN /\ splitter' = SentenceSplitter(cs, ov)
                /\ pc' = "built"
                /\ error' = error
           ELSE /\ splitter' = splitter
                /\ pc' = "failed"
                /\ error' = Str_Unsupported \o lowered
    /\ instances' = IF pc' = "built" THEN instances + 1 ELSE instances
    /\ pipeline' = Propagate(pipeline, pc' = "failed", error')
    /\ UNCHANGED <<locals, other, memo>>

\* variant of Step: one less than the configured stride
Step_short(self) == Max(1, self.chunk_size - self.overlap - 1)

\* variant of Step: one more than the configured stride
Step_long(self) == Max(1, self.chunk_size - self.overlap + 1)

\* variant of Step: the stride is not clamped to 1
Step_unclamped(self) == self.chunk_size - self.overlap

\* step = max(1, self.chunk_size - self.overlap)
Step(self) == Max(1, self.chunk_size - self.overlap)

\* variant of Window: the upper bound is taken inclusively
Window_inclusive(seq, lo, self) == PySlice(seq, lo, lo + self.chunk_size + 1)

\* tokens[i : i + self.chunk_size]  /  text[i : i + self.chunk_size]
Window(seq, lo, self) == PySlice(seq, lo, lo + self.chunk_size)

\* variant of ReachesEnd: the loop is never left early
ReachesEnd_never(lo, self, n) == FALSE

\* variant of ReachesEnd: strict comparison
ReachesEnd_strict(lo, self, n) == lo + self.chunk_size > n

\* variant of ReachesEnd: the loop is left one unit before the end
ReachesEnd_early(lo, self, n) == lo + self.chunk_size >= n - 1

\* variant of ReachesEnd: the loop is left only by a window that ends
\* exactly at the end
ReachesEnd_exact(lo, self, n) == lo + self.chunk_size = n

\* the break test  i + self.chunk_size >= len(...)
ReachesEnd(lo, self, n) == lo + self.chunk_size >= n

\* the texts the caller passes to split: the text run has loaded, any input
\* text for the first call of a library caller, a session text afterwards
CallTexts(cs) ==
    IF pipeline.state = "loaded" THEN {pipeline.raw_text}
    ELSE IF pipeline.state # "none" THEN {}
    ELSE IF memo = {} /\ other.pc = "none" THEN InputTexts(cs)
    ELSE SessionTexts

\* the arguments of build_splitter are out of scope once its caller goes
\* on, unless the caller keeps them for a session
Kept(t) ==
    IF /\ t \in SessionTexts
       /\ pipeline.state = "none"
       /\ splitter.chunk_size \in SessionChunkSizes
    THEN args
    ELSE NoArgs

\* variant of Enter: the chunk list of the previous call is kept
Enter_keep(t, toks, sents, newpc) ==
    /\ args' = Kept(t)
    /\ text' = t
    /\ tokens' = toks
    /\ sentences' = sents
    /\ i' = 0
    /\ current' = <<>>
    /\ chunks' = chunks
    /\ chunk_tokens' = <<>>
    /\ overlapped' = <<>>
    /\ ret' = <<>>
    /\ pc' = newpc
    /\ UNCHANGED <<splitter, error, outer>>

\* variant of Enter: the sentence buffer of the previous call is kept
Enter_buffer(t, toks, sents, newpc) ==
    /\ args' = Kept(t)
    /\ text' = t
    /\ tokens' = toks
    /\ sentences' = sents
    /\ i' = 0
    /\ current' = current
    /\ chunks' = <<>>
    /\ chunk_tokens' = <<>>
    /\ overlapped' = <<>>
    /\ ret' = <<>>
    /\ pc' = newpc
    /\ UNCHANGED <<splitter, error, outer>>

\* entry into a split call: fresh locals
Enter(t, toks, sents, newpc) ==
    /\ args' = Kept(t)
    /\ text' = t
    /\ tokens' = toks
    /\ sentences' = sents
    /\ i' = 0
    /\ current' = <<>>
    /\ chunks' = <<>>
    /\ chunk_tokens' = <<>>
    /\ overlapped' = <<>>
    /\ ret' = <<>>
    /\ pc' = newpc
    /\ UNCHANGED <<splitter, error, outer>>

\* CharSplitter.split(text): up to the loop head
CharSplit_begin ==
    /\ pc = "built"
    /\ splitter.kind = "CharSplitter"
    /\ \E t \in CallTexts(splitter.chunk_size) :
           Enter(t, <<>>, <<>>, "char_loop")

\* CharSplitter.split: one pass of  for i in range(0, len(text), step),
\* or the return when the range is exhausted
CharSplit_iter ==
    /\ pc = "char_loop"
    /\ IF i < Len(text)
       THEN LET chunk == Window(text, i, splitter)
            IN  /\ chunks' = Append(chunks, chunk)
                /\ IF ReachesEnd(i, splitter, Len(text))
                   THEN /\ ret' = chunks'
                        /\ pc' = "done"
                        /\ i' = i
                   ELSE /\ i' = i + Step(splitter)
                        /\ UNCHANGED <<ret, pc>>
       ELSE /\ ret' = chunks
            /\ pc' = "done"
            /\ UNCHANGED <<chunks, i>>
    /\ UNCHANGED <<args, splitter, error, text, tokens, sentences,
                   current, chunk_tokens, overlapped>>
    /\ UNCHANGED outer

\* TokenSplitter.split(text): encode, up to the loop head
TokenSplit_begin ==
    /\ pc = "built"
    /\ splitter.kind = "TokenSplitter"
    /\ \E t \in CallTexts(splitter.chunk_size) :
           Enter(t, Encode(t), <<>>, "token_loop")

\* TokenSplitter.split: one pass of  for i in range(0, len(tokens), step),
\* or the return when the range is exhausted
TokenSplit_iter ==
    /\ pc = "token_loop"
    /\ IF i < Len(tokens)
       THEN LET slice == Window(tokens, i, splitter)
            IN  /\ chunk_tokens' = Append(chunk_tokens, slice)
                /\ chunks' = Append(chunks, Decode(slice))
                /\ IF ReachesEnd(i, splitter, Len(tokens))
                   THEN /\ ret' = chunks'
                        /\ pc' = "done"
                        /\ i' = i
                   ELSE /\ i' = i + Step(splitter)
                        /\ UNCHANGED <<ret, pc>>
       ELSE /\ ret' = chunks
            /\ pc' = "done"
            /\ UNCHANGED <<chunks, chunk_tokens, i>>
    /\ UNCHANGED <<args, splitter, error, text, tokens, sentences,
                   current, overlapped>>
    /\ UNCHANGED outer

\* SentenceSplitter.split(text): sentence_re.split(text.strip())
SentenceSplit_begin ==
    /\ pc = "built"
    /\ splitter.kind = "SentenceSplitter"
    /\ \E t \in CallTexts(splitter.chunk_size) :
           Enter(t, <<>>, sentence_re_split(Strip(t)), "sent_loop")

\* variant of Accumulate: a sentence that does not fit is cut to chunk_size
Accumulate_truncate(cur, chs, sent, self) ==
    LET candidate == Strip(cur \o <<" ">> \o sent)
    IN  IF sent = <<>>
        THEN [current |-> cur, chunks |-> chs]
        ELSE IF Len(candidate) <= self.chunk_size
        THEN [current |-> candidate, chunks |-> chs]
        ELSE [current |-> PySlice(sent, 0, self.chunk_size),
              chunks |-> IF cur # <<>> THEN Append(chs, cur) ELSE chs]

\* variant of Accumulate: a candidate of exactly chunk_size does not fit
Accumulate_strict(cur, chs, sent, self) ==
    LET candidate == Strip(cur \o <<" ">> \o sent)
    IN  IF sent = <<>>
        THEN [current |-> cur, chunks |-> chs]
        ELSE IF Len(candidate) < self.chunk_size
        THEN [current |-> candidate, chunks |-> chs]
        ELSE [current |-> sent,
              chunks |-> IF cur # <<>> THEN Append(chs, cur) ELSE chs]

\* variant of Accumulate: the joining space is not counted
Accumulate_loose(cur, chs, sent, self) ==
    LET candidate == Strip(cur \o <<" ">> \o sent)
    IN  IF sent = <<>>
        THEN [current |-> cur, chunks |-> chs]
        ELSE IF Len(candidate) - 1 <= self.chunk_size
        THEN [current |-> candidate, chunks |-> chs]
        ELSE [current |-> sent,
              chunks |-> IF cur # <<>> THEN Append(chs, cur) ELSE chs]

\* body of  for sent in sentences : the new values of current and chunks
Accumulate(cur, chs, sent, self) ==
    LET candidate == Strip(cur \o <<" ">> \o sent)
    IN  IF sent = <<>>
        THEN [current |-> cur, chunks |-> chs]
        ELSE IF Len(candidate) <= self.chunk_size
        THEN [current |-> candidate, chunks |-> chs]
        ELSE [current |-> sent,
              chunks |-> IF cur # <<>> THEN Append(chs, cur) ELSE chs]

\* variant of SentenceSplit_iter: skipping an empty sentence does not advance
SentenceSplit_iter_stuck ==
    /\ pc = "sent_loop"
    /\ i < Len(sentences)
    /\ LET acc == Accumulate(current, chunks, sentences[i + 1], splitter)
       IN  /\ current' = acc.current
           /\ chunks' = acc.chunks
    /\ i' = IF sentences[i + 1] = <<>> THEN i ELSE i + 1
    /\ UNCHANGED <<pc, args, splitter, error, text, tokens,
                   sentences, chunk_tokens, overlapped, ret>>
    /\ UNCHANGED outer

\* SentenceSplitter.split: one pass of  for sent in sentences
\* (i counts the sentences already consumed)
SentenceSplit_iter ==
    /\ pc = "sent_loop"
    /\ i < Len(sentences)
    /\ LET acc == Accumulate(current, chunks, sentences[i + 1], splitter)
       IN  /\ current' = acc.current
           /\ chunks' = acc.chunks
    /\ i' = i + 1
    /\ UNCHANGED <<pc, args, splitter, error, text, tokens,
                   sentences, chunk_tokens, overlapped, ret>>
    /\ UNCHANGED outer

\* variant of Flush: current is appended without the emptiness test
Flush_always(chs, cur) == Append(chs, cur)

\* variant of Flush: the final accumulated chunk is not emitted
Flush_never(chs, cur) == chs

\* if current: chunks.append(current)
Flush(chs, cur) == IF cur # <<>> THEN Append(chs, cur) ELSE chs

\* SentenceSplitter.split: after the sentence loop, flush current and
\* either return or enter the overlap rewrite
SentenceSplit_flush ==
    /\ pc = "sent_loop"
    /\ i >= Len(sentences)
    /\ chunks' = Flush(chunks, current)
    /\ IF splitter.overlap > 0 /\ Len(chunks') > 1
       THEN /\ pc' = "overlap_loop"
            /\ i' = 0
            /\ UNCHANGED ret
       ELSE /\ pc' = "done"
            /\ ret' = chunks'
            /\ UNCHANGED i
    /\ UNCHANGED <<args, splitter, error, text, tokens, sentences,
                   current, chunk_tokens, overlapped>>
    /\ UNCHANGED outer

\* variant of Prev: the chunk before the rewrite is taken
Prev_original(out, chs, k) == chs[k]

\* prev = overlapped[-1]  (k is the 0-based index of the chunk being rewritten)
Prev(out, chs, k) == out[Len(out)]

\* f"{prefix} {chunk}".strip()  with  prefix = prev[-self.overlap:]
Rewrite(prev, chunk, self) ==
    LET prefix == PySuffix(prev, self.overlap)
    IN  Strip(prefix \o <<" ">> \o chunk)

\* SentenceSplitter.split: one pass of  for i, chunk in enumerate(chunks);
\* the pass over the last chunk is followed by chunks = overlapped and the
\* return (chunks keeps the chunks before the rewrite, ret has the result)
SentenceSplit_overlap ==
    /\ pc = "overlap_loop"
    /\ i < Len(chunks)
    /\ LET chunk == chunks[i + 1]
       IN  overlapped' =
               IF i = 0 THEN Append(overlapped, chunk)
               ELSE Append(overlapped,
                           Rewrite(Prev(overlapped, chunks, i), chunk,
                                   splitter))
    /\ i' = i + 1
    /\ IF i + 1 = Len(chunks)
       THEN /\ pc' = "done"
            /\ ret' = overlapped'
       ELSE UNCHANGED <<pc, ret>>
    /\ UNCHANGED <<args, splitter, error, text, tokens, sentences,
                   current, chunks, chunk_tokens>>
    /\ UNCHANGED outer

----------------------------------------------------------------------------
(* Loaders (loaders/registry.py) *)

Ext_txt == <<".","t","x","t">>
Ext_md == <<".","m","d">>
Ext_pdf == <<".","p","d","f">>
Ext_docx == <<".","d","o","c","x">>

\* LoaderRegistry.register: the extension is stored lower-cased
register(reg, extension, loader) ==
    {p \in reg : p[1] # Lower(extension)} \cup {<<Lower(extension), loader>>}

\* build_default_loader_registry()
build_default_loader_registry ==
    register(register(register(register({}, Ext_txt, "TxtLoader"),
                               Ext_md, "TxtLoader"),
                      Ext_pdf, "PdfLoader"),
             Ext_docx, "DocxLoader")

\* self._loaders.get(ext)
registry_get(reg, ext) ==
    IF \E p \in reg : p[1] = ext
    THEN (CHOOSE p \in reg : p[1] = ext)[2]
    ELSE "None"

\* os.path.exists(file_path)
path_exists(path) == \E f \in FileSystem : f[1] = path

\* the text the file's loader extracts
Content(path) == (CHOOSE f \in FileSystem : f[1] = path)[2]

\* str.rfind(c): 0-based index of the last occurrence, or -1
RFind(s, c) ==
    LET ks == {k \in 1..Len(s) : s[k] = c}
    IN  IF ks = {} THEN -1
        ELSE (CHOOSE k \in ks : \A j \in ks : j <= k) - 1

\* os.path.splitext(path)[1]: the suffix from the last dot of the last path
\* component, unless only dots precede it there
splitext(path) ==
    LET sepIndex == RFind(path, "/")
        dotIndex == RFind(path, ".")
    IN  IF /\ dotIndex > sepIndex
           /\ \E k \in (sepIndex + 1)..(dotIndex - 1) : path[k + 1] # "."
        THEN PySlice(path, dotIndex, Len(path))
        ELSE <<>>

\* TxtLoader.load
TxtLoader_load(path) ==
    [raised |-> "none", message |-> <<>>, value |-> Content(path)]

\* PdfLoader.load (fitz: whether PyMuPDF could be imported)
PdfLoader_load(path, fitz) ==
    IF ~fitz
    THEN [raised |-> "ImportError", message |-> Str_NoPyMuPDF,
          value |-> <<>>]
    ELSE [raised |-> "none", message |-> <<>>, value |-> Content(path)]

\* DocxLoader.load (docx: whether python-docx could be imported)
DocxLoader_load(path, docx) ==
    IF ~docx
    THEN [raised |-> "ImportError", message |-> Str_NoPythonDocx,
          value |-> <<>>]
    ELSE [raised |-> "none", message |-> <<>>, value |-> Content(path)]

\* loader.load(file_path)
Loader_load(loader, path, fitz, docx) ==
    IF loader = "TxtLoader" THEN TxtLoader_load(path)
    ELSE IF loader = "PdfLoader" THEN PdfLoader_load(path, fitz)
    ELSE DocxLoader_load(path, docx)

\* variant of LoaderRegistry_load: the extension is looked up before the
\* existence test
LoaderRegistry_load_lookup_first(reg, path, fitz, docx) ==
    LET ext == Lower(splitext(path))
        loader == registry_get(reg, ext)
    IN  IF loader = "None"
        THEN [raised |-> "ValueError", message |-> Str_NoLoader \o ext,
              invoked |-> <<>>, value |-> <<>>]
        ELSE IF ~path_exists(path)
        THEN [raised |-> "FileNotFoundError",
              message |-> Str_FileNotFound \o path,
              invoked |-> <<>>, value |-> <<>>]
        ELSE LET r == Loader_load(loader, path, fitz, docx)
             IN  [raised |-> r.raised, message |-> r.message,
                  invoked |-> <<[loader |-> loader, file_path |-> path]>>,
                  value |-> r.value]

\* LoaderRegistry.load(file_path): what is raised or returned, and the
\* loaders that were invoked
LoaderRegistry_load(reg, path, fitz, docx) ==
    IF ~path_exists(path)
    THEN [raised |-> "FileNotFoundError",
          message |-> Str_FileNotFound \o path,
          invoked |-> <<>>, value |-> <<>>]
    ELSE LET ext == Lower(splitext(path))
             loader == registry_get(reg, ext)
         IN  IF loader = "None"
             THEN [raised |-> "ValueError", message |-> Str_NoLoader \o ext,
                   invoked |-> <<>>, value |-> <<>>]
             ELSE LET r == Loader_load(loader, path, fitz, docx)
                  IN  [raised |-> r.raised, message |-> r.message,
                       invoked |->
                           <<[loader |-> loader, file_path |-> path]>>,
                       value |-> r.value]

----------------------------------------------------------------------------
(* EvaluationPipeline (core/pipeline.py) *)

\* variant of EvaluationPipeline_init_begin: the splitter is not built in the
\* constructor
EvaluationPipeline_init_begin_deferred(config) ==
    /\ pc = "init"
    /\ pipeline.state = "none"
    /\ instances = 0
    /\ pipeline' = [pipeline EXCEPT !.state = "ready",
                                    !.config = config,
                                    !.registry = build_default_loader_registry]
    /\ UNCHANGED <<pc, args, splitter, error, locals, other, memo, instances>>

\* EvaluationPipeline.__init__: self.config and self.loader_registry
EvaluationPipeline_init_begin(config) ==
    /\ pc = "init"
    /\ pipeline.state = "none"
    /\ instances = 0
    /\ pipeline' = [pipeline EXCEPT !.state = "constructing",
                                    !.config = config,
                                    !.registry = build_default_loader_registry]
    /\ UNCHANGED <<pc, args, splitter, error, locals, other, memo, instances>>

\* the build_splitter calls that are made: the constructor passes the
\* configuration, a library caller passes anything the first time and the
\* same arguments the second time
Requested(name, cs, ov) ==
    LET a == [splitter_type |-> name, chunk_size |-> cs, overlap |-> ov]
    IN  IF pipeline.state = "none" THEN instances = 0 \/ args = a
        ELSE pipeline.state = "constructing" /\ pipeline.config = a

\* outcomes of constructing QuestionLibraryGenerator and RAGClient, which
\* depend on the environment (API keys, installed packages)
CollaboratorOutcomes == {"none", "ValueError", "ImportError"}

\* EvaluationPipeline.__init__: self.generator and self.rag_client
EvaluationPipeline_init_end ==
    /\ pipeline.state = "constructing"
    /\ pc = "built"
    /\ \E out \in CollaboratorOutcomes :
           pipeline' = [pipeline EXCEPT
                           !.state = IF out = "none" THEN "ready"
                                     ELSE "failed",
                           !.raised = out]
    /\ UNCHANGED <<pc, args, splitter, error, locals, other, memo, instances>>

\* EvaluationPipeline.run: raw_text = self.loader_registry.load(file_path)
EvaluationPipeline_run_load ==
    /\ pipeline.state = "ready"
    /\ \E path \in Paths, fitz \in BOOLEAN, docx \in BOOLEAN :
           LET r == LoaderRegistry_load(pipeline.registry, path, fitz, docx)
           IN  pipeline' = [pipeline EXCEPT
                               !.file_path = path,
                               !.load_calls = @ + 1,
                               !.loader_calls = @ \o r.invoked,
                               !.raw_text = r.value,
                               !.raised = r.raised,
                               !.message = r.message,
                               !.state = IF r.raised = "none" THEN "loaded"
                                         ELSE "failed"]
    /\ UNCHANGED <<pc, args, splitter, error, locals, other, memo, instances>>

\* EvaluationPipeline.run: one pass of  for idx, chunk in enumerate(chunks),
\* whose generate_suite call returns or raises
EvaluationPipeline_run_generate ==
    /\ pipeline.state = "loaded"
    /\ pc = "done"
    /\ pipeline.gen_calls < Len(ret)
    /\ \E ok \in BOOLEAN :
           pipeline' = [pipeline EXCEPT
                           !.gen_calls = @ + 1,
                           !.state = IF ok THEN "loaded" ELSE "failed",
                           !.raised = IF ok THEN "none" ELSE "Exception"]
    /\ UNCHANGED <<pc, args, splitter, error, locals, other, memo, instances>>

\* EvaluationPipeline.run: return all_entries
EvaluationPipeline_run_return ==
    /\ pipeline.state = "loaded"
    /\ pc = "done"
    /\ pipeline.gen_calls = Len(ret)
    /\ pipeline' = [pipeline EXCEPT !.state = "finished"]
    /\ UNCHANGED <<pc, args, splitter, error, locals, other, memo, instances>>

----------------------------------------------------------------------------
(* A caller of the library: repeated calls, a second splitter, two threads *)

\* the caller keeps the arguments of build_splitter and calls split alone
InSession ==
    /\ pipeline.state = "none"
    /\ other.pc = "none"
    /\ args # NoArgs

\* every session text was split alone on the splitters 1..k
MemoFull(k) ==
    \A n \in 1..k, t \in SessionTexts :
        \E m \in memo : m.instance = n /\ m.text = t

\* the caller receives the list and may call again
Session_return ==
    /\ pc = "done"
    /\ InSession
    /\ memo' = memo \cup {[instance |-> instances, text |-> text, ret |-> ret]}
    /\ pc' = "built"
    /\ UNCHANGED <<args, splitter, error, locals, pipeline, other, instances>>

\* the caller drops the splitter, to build another with the same arguments
Session_discard ==
    /\ pc = "built"
    /\ InSession
    /\ MemoFull(instances)
    /\ instances < MaxSplitters
    /\ pc' = "init"
    /\ splitter' = NoSplitter
    /\ UNCHANGED <<args, error, locals, outer>>

\* two threads get the splitter, each about to call split
Session_spawn ==
    /\ pc = "built"
    /\ InSession
    /\ MemoFull(MaxSplitters)
    /\ other' = [NoFrame EXCEPT !.pc = "built"]
    /\ text' = <<>>
    /\ tokens' = <<>>
    /\ sentences' = <<>>
    /\ i' = 0
    /\ current' = <<>>
    /\ chunks' = <<>>
    /\ chunk_tokens' = <<>>
    /\ overlapped' = <<>>
    /\ ret' = <<>>
    /\ UNCHANGED <<pc, args, splitter, error, pipeline, memo, instances>>

\* the scheduler suspends the running thread and resumes the other one
Thread_switch ==
    /\ other.pc # "none"
    /\ other' = [pc |-> pc, text |-> text, tokens |-> tokens,
                 sentences |-> sentences, i |-> i, current |-> current,
                 chunks |-> chunks, chunk_tokens |-> chunk_tokens,
                 overlapped |-> overlapped, ret |-> ret]
    /\ pc' = other.pc
    /\ text' = other.text
    /\ tokens' = other.tokens
    /\ sentences' = other.sentences
    /\ i' = other.i
    /\ current' = other.current
    /\ chunks' = other.chunks
    /\ chunk_tokens' = other.chunk_tokens
    /\ overlapped' = other.overlapped
    /\ ret' = other.ret
    /\ UNCHANGED <<args, splitter, error, pipeline, memo, instances>>

Next ==
    \/ \E name \in StrategyNames, cs \in ChunkSizes, ov \in Overlaps :
           Requested(name, cs, ov) /\ build_splitter(name, cs, ov)
    \/ \E config \in PipelineConfigs : EvaluationPipeline_init_begin(config)
    \/ EvaluationPipeline_init_end
    \/ EvaluationPipeline_run_load
    \/ EvaluationPipeline_run_generate
    \/ EvaluationPipeline_run_return
    \/ Session_return
    \/ Session_discard
    \/ Session_spawn
    \/ Thread_switch
    \/ CharSplit_begin
    \/ CharSplit_iter
    \/ TokenSplit_begin
    \/ TokenSplit_iter
    \/ SentenceSplit_begin
    \/ SentenceSplit_iter
    \/ SentenceSplit_flush
    \/ SentenceSplit_overlap

Spec == Init /\ [][Next]_vars

\* a running split call keeps executing
FairSpec ==
    /\ Spec
    /\ WF_vars(CharSplit_iter)
    /\ WF_vars(TokenSplit_iter)
    /\ WF_vars(SentenceSplit_iter)
    /\ WF_vars(SentenceSplit_flush)
    /\ WF_vars(SentenceSplit_overlap)

----------------------------------------------------------------------------
(* Notions used by the properties *)

\* the configuration satisfies  0 <= overlap < chunk_size
Valid == 0 <= splitter.overlap /\ splitter.overlap < splitter.chunk_size

IsChar == splitter.kind = "CharSplitter"
IsToken == splitter.kind = "TokenSplitter"
IsSentence == splitter.kind = "SentenceSplitter"

\* a split call has returned
Returned == pc = "done"

\* the running call is not suspended in favour of another thread
Scheduled == other.pc = "none"

\* the sequence the sliding window runs over, and the chunk made of a window
Units == IF IsToken THEN tokens ELSE text
Render(w) == IF IsToken THEN Decode(w) ELSE w

\* index of the last window: least k with k*step + chunk_size >= n
LastWindow(n, step, cs) ==
    CHOOSE k \in 0..n :
        /\ k * step + cs >= n
        /\ \A m \in 0..(k - 1) : m * step + cs < n

Str_abcde == <<"a","b","c","d","e">>
Str_fghij == <<"f","g","h","i","j">>
Str_defgh == <<"d","e","f","g","h">>
Str_ghij == <<"g","h","i","j">>

----------------------------------------------------------------------------
(* C1: with 0 <= overlap < chunk_size, every chunk of CharSplitter.split   *)
(* has at most chunk_size characters and every chunk of                    *)
(* TokenSplitter.split is the decoding of at most chunk_size tokens.       *)
C1_BoundRespected ==
    Valid =>
        /\ IsChar =>
              /\ \A k \in DOMAIN chunks : Len(chunks[k]) <= splitter.chunk_size
              /\ \A k \in DOMAIN ret : Len(ret[k]) <= splitter.chunk_size
        /\ IsToken =>
              /\ Len(chunk_tokens) = Len(chunks)
              /\ \A k \in DOMAIN chunks :
                    /\ Len(chunk_tokens[k]) <= splitter.chunk_size
                    /\ chunks[k] = Decode(chunk_tokens[k])
              /\ Returned => ret = chunks

\* a token split whose first chunk is a full window of merged tokens
C1_Witness ==
    /\ Returned /\ Valid /\ IsToken
    /\ Len(ret) >= 2
    /\ Len(chunk_tokens[1]) = splitter.chunk_size
    /\ Len(ret[1]) > splitter.chunk_size

(* C2: with overlap = 0 and chunk_size >= 1 the chunks of CharSplitter and *)
(* TokenSplitter tile the input: chunk k covers the index range that       *)
(* starts where chunk k-1 ended, and the concatenation of the chunks (of   *)
(* the token windows) is the text (the token sequence).                    *)
C2_Tiling ==
    (Returned /\ (IsChar \/ IsToken)
       /\ splitter.overlap = 0 /\ splitter.chunk_size >= 1) =>
        LET cs == splitter.chunk_size
            n  == Len(Units)
        IN  /\ \A k \in DOMAIN ret :
                  ret[k] = Render(SubSeq(Units, (k - 1) * cs + 1,
                                         Min(k * cs, n)))
            /\ Len(ret) * cs >= n
            /\ (Len(ret) - 1) * cs < n \/ n = 0
            /\ IsChar => Concat(ret) = text
            /\ IsToken => Concat(chunk_tokens) = tokens

\* a tiling of three or more chunks whose last chunk is short
C2_Witness ==
    /\ Returned /\ IsChar
    /\ splitter.overlap = 0 /\ splitter.chunk_size >= 2
    /\ Len(ret) >= 3
    /\ Len(ret[Len(ret)]) < splitter.chunk_size

(* C3: for every strategy and every configuration with                     *)
(* 0 <= overlap < chunk_size, a started split call returns (a call of a    *)
(* thread that runs, not one suspended in favour of another thread).       *)
C3_Terminates ==
    (pc \in {"char_loop", "token_loop", "sent_loop", "overlap_loop"} /\ Valid
       /\ Scheduled)
        ~> Returned

\* a sentence split that went through the sentence loop and the rewrite
C3_Witness ==
    /\ Returned /\ Valid /\ IsSentence
    /\ splitter.overlap > 0
    /\ Len(ret) >= 3

(* C4: for CharSplitter and TokenSplitter on an input of n >= 1 units,     *)
(* with step = max(1, chunk_size - overlap), split returns exactly the     *)
(* windows [k*step, min(k*step + chunk_size, n)) for k = 0..K in order,    *)
(* K the least k with k*step + chunk_size >= n; chunk_size=5 on            *)
(* "abcdefghij" gives abcde,fghij for overlap 0 and abcde,defgh,ghij for   *)
(* overlap 2.                                                              *)
C4_Windows ==
    (Returned /\ (IsChar \/ IsToken) /\ Len(Units) >= 1
       /\ splitter.chunk_size >= 1 /\ splitter.overlap >= 0) =>
        LET cs   == splitter.chunk_size
            n    == Len(Units)
            step == Max(1, cs - splitter.overlap)
            K    == LastWindow(n, step, cs)
        IN  /\ Len(ret) = K + 1
            /\ \A k \in 0..K :
                  ret[k + 1] = Render(SubSeq(Units, k * step + 1,
                                             Min(k * step + cs, n)))
            /\ (IsChar /\ text = TextAlphabet /\ cs = 5) =>
                  /\ splitter.overlap = 0 => ret = <<Str_abcde, Str_fghij>>
                  /\ splitter.overlap = 2 =>
                        ret = <<Str_abcde, Str_defgh, Str_ghij>>

\* scenario B has been run
C4_Witness ==
    /\ Returned /\ IsChar /\ text = TextAlphabet
    /\ splitter.chunk_size = 5 /\ splitter.overlap = 2
    /\ Len(ret) = 3

----------------------------------------------------------------------------
IsSuffix(p, s) ==
    Len(p) <= Len(s) /\ SubSeq(s, Len(s) - Len(p) + 1, Len(s)) = p

\* s without its leading whitespace
LStrip(s) ==
    LET nonws == {k \in 1..Len(s) : s[k] \notin Whitespace}
    IN  IF nonws = {} THEN <<>>
        ELSE SubSeq(s, CHOOSE k \in nonws : \A m \in nonws : k <= m, Len(s))

RECURSIVE JoinSpace(_)
\* " ".join(parts)
JoinSpace(parts) ==
    IF parts = <<>> THEN <<>>
    ELSE IF Len(parts) = 1 THEN parts[1]
    ELSE parts[1] \o <<" ">> \o JoinSpace(Tail(parts))

\* the non-empty sentences of the text of the call
InputSentences == SelectSeq(sentence_re_split(Strip(text)), LAMBDA x : x # <<>>)

(* C5: a splitter built with chunk_size <= 0 or overlap >= chunk_size is   *)
(* rejected at construction, so every splitter object that exists          *)
(* satisfies 0 <= overlap < chunk_size.                                    *)
C5_ConfigValidated == splitter.kind # "none" => Valid

(* C6 as stated: build_splitter returns a TokenSplitter for "token", a     *)
(* CharSplitter for "char", a SentenceSplitter for "sentence", carrying    *)
(* the given chunk_size and overlap; for any other name it fails with an   *)
(* error whose message names the value that was passed, and no splitter    *)
(* is constructed.                                                         *)
C6_FactoryNamesPassedValue ==
    pc \in {"built", "failed"} =>
        LET name == args.splitter_type
            made(k) == [kind |-> k, chunk_size |-> args.chunk_size,
                        overlap |-> args.overlap]
        IN  /\ name = Str_token => splitter = made("TokenSplitter")
            /\ name = Str_char => splitter = made("CharSplitter")
            /\ name = Str_sentence => splitter = made("SentenceSplitter")
            /\ name \notin {Str_token, Str_char, Str_sentence} =>
                  /\ pc = "failed"
                  /\ splitter = NoSplitter
                  /\ IsSuffix(name, error)

(* C6 amended: the strategy name is matched in lower case.  A name whose   *)
(* lower-case form is "token", "char" or "sentence" yields the             *)
(* TokenSplitter, CharSplitter or SentenceSplitter carrying the given      *)
(* chunk_size and overlap, and no error; any other name fails, no          *)
(* splitter is constructed, and the message is "Unsupported                *)
(* splitter_type: " followed by the lower-case form of the passed name.    *)
C6_Factory ==
    pc \in {"built", "failed"} =>
        LET name == [k \in 1..Len(args.splitter_type) |->
                        LowerChar(args.splitter_type[k])]
            made(k) == [kind |-> k, chunk_size |-> args.chunk_size,
                        overlap |-> args.overlap]
        IN  /\ name = Str_token => splitter = made("TokenSplitter")
            /\ name = Str_char => splitter = made("CharSplitter")
            /\ name = Str_sentence => splitter = made("SentenceSplitter")
            /\ name \in {Str_token, Str_char, Str_sentence} =>
                  pc # "failed" /\ error = <<>>
            /\ name \notin {Str_token, Str_char, Str_sentence} =>
                  /\ pc = "failed"
                  /\ splitter = NoSplitter
                  /\ error = Str_Unsupported \o name

\* an upper-case unknown name has been rejected
C6_Witness ==
    /\ pc = "failed"
    /\ args.splitter_type = Str_XML
    /\ IsSuffix(Str_xml, error)
    /\ splitter = NoSplitter

(* C7: for every strategy and valid configuration split("") returns the    *)
(* empty sequence; SentenceSplitter also returns the empty sequence for    *)
(* whitespace-only text and never emits an empty or whitespace-only chunk. *)
C7_EmptyInput ==
    (Returned /\ Valid) =>
        /\ text = <<>> => ret = <<>>
        /\ IsSentence =>
              /\ (\A k \in DOMAIN text : text[k] \in Whitespace) => ret = <<>>
              /\ \A k \in DOMAIN ret :
                    \E m \in DOMAIN ret[k] : ret[k][m] \notin Whitespace

\* a sentence split of a non-empty, whitespace-only text has returned
C7_Witness ==
    /\ Returned /\ Valid /\ IsSentence
    /\ Len(text) >= 2
    /\ \A k \in DOMAIN text : text[k] \in Whitespace
    /\ ret = <<>>

(* C8 as stated, on valid configurations: with overlap > 0 and more than   *)
(* one chunk, the first chunk is unchanged and every other chunk becomes   *)
(* the last `overlap` characters of the previous output chunk, a single    *)
(* space, and the original chunk.                                          *)
C8_OverlapPrefixExact ==
    (Returned /\ IsSentence /\ Valid
       /\ splitter.overlap > 0 /\ Len(chunks) > 1) =>
        /\ Len(ret) = Len(chunks)
        /\ ret[1] = chunks[1]
        /\ \A k \in 2..Len(chunks) :
              ret[k] = PySuffix(ret[k - 1], splitter.overlap)
                          \o <<" ">> \o chunks[k]

(* C8 amended: with overlap > 0 and more than one chunk, the first chunk   *)
(* is unchanged and every other chunk becomes: the last `overlap`          *)
(* characters of the previous output chunk (the rewritten one; all of it   *)
(* when it is shorter), a single space, the original chunk - with the      *)
(* leading whitespace of the result removed.                               *)
C8_OverlapRewrite ==
    (Returned /\ IsSentence
       /\ splitter.overlap > 0 /\ Len(chunks) > 1) =>
        /\ Len(ret) = Len(chunks)
        /\ ret[1] = chunks[1]
        /\ \A k \in 2..Len(chunks) :
              LET prev == ret[k - 1]
                  from == Max(Len(prev) - splitter.overlap, 0) + 1
              IN  ret[k] = LStrip(SubSeq(prev, from, Len(prev))
                                     \o <<" ">> \o chunks[k])

\* a rewrite whose third chunk takes its prefix from the rewritten second
\* chunk, beyond what the second chunk was before the rewrite
C8_Witness ==
    /\ Returned /\ IsSentence /\ Valid
    /\ Len(chunks) >= 3
    /\ splitter.overlap > Len(chunks[2]) + 1
    /\ Len(ret[3]) > Len(chunks[2]) + 1 + Len(chunks[3])

(* C9: SentenceSplitter never truncates a sentence: with overlap = 0       *)
(* every chunk is one or more whole consecutive sentences of the input     *)
(* joined by single spaces, a sentence longer than chunk_size is a chunk   *)
(* of its own, and chunk_size=20 on "Hi there. How are you? I am fine."    *)
(* gives at least 2 chunks.                                                *)
C9_WholeSentences ==
    (Returned /\ IsSentence /\ splitter.overlap = 0) =>
        LET S == InputSentences
        IN  /\ \A k \in DOMAIN ret :
                  \E lo \in 1..Len(S) : \E hi \in lo..Len(S) :
                      ret[k] = JoinSpace(SubSeq(S, lo, hi))
            /\ \A m \in DOMAIN S :
                  Len(S[m]) > splitter.chunk_size =>
                      \E k \in DOMAIN ret : ret[k] = S[m]
            /\ (text = TextGreeting /\ splitter.chunk_size = 20) =>
                  Len(ret) >= 2

\* a sentence longer than chunk_size was emitted whole next to another chunk
C9_Witness ==
    /\ Returned /\ IsSentence /\ Valid /\ splitter.overlap = 0
    /\ Len(ret) >= 2
    /\ \E k \in DOMAIN ret :
          /\ Len(ret[k]) > splitter.chunk_size
          /\ \E m \in DOMAIN InputSentences : InputSentences[m] = ret[k]

(* C10: for TokenSplitter and CharSplitter with 0 <= overlap < chunk_size, *)
(* a non-empty input of at most chunk_size units yields exactly one chunk, *)
(* the whole (decoded) input.                                              *)
C10_SingleChunk ==
    (Returned /\ Valid /\ Len(Units) >= 1
       /\ Len(Units) <= splitter.chunk_size) =>
        /\ IsChar => ret = <<text>>
        /\ IsToken => ret = <<Decode(tokens)>>

\* a token split of exactly chunk_size tokens with a positive overlap
C10_Witness ==
    /\ Returned /\ Valid /\ IsToken
    /\ Len(tokens) = splitter.chunk_size
    /\ Len(text) > splitter.chunk_size
    /\ splitter.overlap > 0
    /\ Len(ret) = 1

----------------------------------------------------------------------------
\* the windows of units behind the returned chunks
UnitChunks == IF IsToken THEN chunk_tokens ELSE ret

(* C11 as stated: for TokenSplitter and CharSplitter with                  *)
(* 0 < overlap < chunk_size, the first `overlap` units of chunk k+1 are    *)
(* the last `overlap` units of chunk k (the same input positions), every   *)
(* chunk but the last has exactly chunk_size units, and the last chunk     *)
(* has more than `overlap` units.                                          *)
C11_OverlapExactAlways ==
    (Returned /\ (IsChar \/ IsToken) /\ Valid /\ splitter.overlap > 0
       /\ Len(ret) >= 1) =>
        LET cs   == splitter.chunk_size
            ov   == splitter.overlap
            step == cs - ov
            U    == UnitChunks
        IN  /\ \A k \in 1..(Len(U) - 1) :
                  /\ Len(U[k]) = cs
                  /\ SubSeq(U[k + 1], 1, ov) = SubSeq(U[k], cs - ov + 1, cs)
                  /\ SubSeq(U[k + 1], 1, ov)
                        = SubSeq(Units, k * step + 1, k * step + ov)
            /\ Len(U[Len(U)]) > ov

(* C11 amended: as stated, except that the last chunk has more than        *)
(* `overlap` units when there is more than one chunk (a single chunk is    *)
(* the whole input, however short).                                        *)
C11_OverlapExact ==
    (Returned /\ (IsChar \/ IsToken) /\ Valid /\ splitter.overlap > 0
       /\ Len(ret) >= 1) =>
        LET cs   == splitter.chunk_size
            ov   == splitter.overlap
            step == cs - ov
            U    == UnitChunks
        IN  /\ \A k \in 1..(Len(U) - 1) :
                  /\ Len(U[k]) = cs
                  /\ SubSeq(U[k + 1], 1, ov) = SubSeq(U[k], cs - ov + 1, cs)
                  /\ SubSeq(U[k + 1], 1, ov)
                        = SubSeq(Units, k * step + 1, k * step + ov)
            /\ Len(U) > 1 => Len(U[Len(U)]) > ov
            /\ Len(U) = 1 => U[1] = Units

\* three or more token chunks with an overlap of two tokens
C11_Witness ==
    /\ Returned /\ IsToken /\ Valid
    /\ splitter.overlap = 2
    /\ Len(chunk_tokens) >= 3
    /\ Len(text) > Len(tokens)

----------------------------------------------------------------------------
\* number of sentences joined in a chunk made of whole sentences
SentenceCount(chunk) ==
    Cardinality({p \in 2..Len(chunk) :
                    chunk[p - 1] \in {".", "!", "?"} /\ chunk[p] = " "}) + 1

\* index in InputSentences of the first sentence of chunk k (overlap = 0)
RECURSIVE FirstSentence(_)
FirstSentence(k) ==
    IF k = 1 THEN 1 ELSE FirstSentence(k - 1) + SentenceCount(ret[k - 1])

(* C15: SentenceSplitter closes a chunk only when it must: with            *)
(* overlap = 0, for consecutive chunks c_k and c_{k+1},                    *)
(* len(c_k) + 1 + len(first sentence of c_{k+1}) > chunk_size, and that    *)
(* sentence is the one following the sentences of c_k in the input.        *)
C15_Greedy ==
    (Returned /\ IsSentence /\ splitter.overlap = 0) =>
        \A k \in 1..(Len(ret) - 1) :
            LET f     == FirstSentence(k + 1)
                first == InputSentences[f]
            IN  /\ f <= Len(InputSentences)
                /\ Len(ret[k]) + 1 + Len(first) > splitter.chunk_size
                /\ IsPrefix(first, ret[k + 1])
                /\ IsSuffix(InputSentences[f - 1], ret[k])

\* a chunk of two sentences was closed before a sentence that did not fit
C15_Witness ==
    /\ Returned /\ IsSentence /\ Valid /\ splitter.overlap = 0
    /\ Len(ret) >= 2
    /\ SentenceCount(ret[1]) >= 2
    /\ Len(ret[1]) < splitter.chunk_size

(* C16: for SentenceSplitter with overlap = 0, every chunk that groups two *)
(* or more sentences has at most chunk_size characters; only a chunk of a  *)
(* single sentence may exceed chunk_size, so when every sentence has at    *)
(* most chunk_size characters all chunks respect the bound.                *)
C16_GroupBound ==
    (Returned /\ IsSentence /\ splitter.overlap = 0) =>
        /\ \A k \in DOMAIN ret :
              Len(ret[k]) > splitter.chunk_size =>
                  /\ SentenceCount(ret[k]) = 1
                  /\ \E m \in DOMAIN InputSentences :
                        InputSentences[m] = ret[k]
        /\ (\A m \in DOMAIN InputSentences :
               Len(InputSentences[m]) <= splitter.chunk_size) =>
              \A k \in DOMAIN ret : Len(ret[k]) <= splitter.chunk_size

\* a chunk of two sentences that fills chunk_size exactly
C16_Witness ==
    /\ Returned /\ IsSentence /\ Valid /\ splitter.overlap = 0
    /\ \E k \in DOMAIN ret :
          /\ SentenceCount(ret[k]) >= 2
          /\ Len(ret[k]) = splitter.chunk_size

----------------------------------------------------------------------------
\* the text of the call without its leading and trailing whitespace
Trimmed ==
    LET nonws == {k \in 1..Len(text) : text[k] \notin {" ", "\n", "\t"}}
    IN  IF nonws = {} THEN <<>>
        ELSE SubSeq(text, CHOOSE k \in nonws : \A m \in nonws : k <= m,
                          CHOOSE k \in nonws : \A m \in nonws : k >= m)

\* first positions of the whitespace runs of Trimmed that follow . ! or ?
Boundaries ==
    {p \in 2..Len(Trimmed) :
        /\ Trimmed[p] \in {" ", "\n", "\t"}
        /\ Trimmed[p - 1] \in {".", "!", "?"}}

\* first position after the whitespace run that starts at p
AfterRun(p) ==
    CHOOSE e \in (p + 1)..(Len(Trimmed) + 1) :
        /\ \A k \in p..(e - 1) : Trimmed[k] \in {" ", "\n", "\t"}
        /\ (e = Len(Trimmed) + 1 \/ Trimmed[e] \notin {" ", "\n", "\t"})

\* first positions of the sentences of Trimmed
SentenceStarts == {1} \cup {AfterRun(p) : p \in Boundaries}

\* last position of the sentence that starts at a
SentenceEnd(a) ==
    LET later == {p \in Boundaries : p > a}
    IN  IF later = {} THEN Len(Trimmed)
        ELSE (CHOOSE p \in later : \A q \in later : p <= q) - 1

(* C17: SentenceSplitter places a sentence boundary exactly at each        *)
(* maximal run of whitespace that immediately follows '.', '!' or '?':     *)
(* the punctuation ends the preceding sentence, the run is dropped, there  *)
(* is no boundary elsewhere, and leading and trailing whitespace of the    *)
(* text is ignored.                                                        *)
C17_Boundaries ==
    (IsSentence /\ pc \in {"sent_loop", "overlap_loop", "done"}) =>
        /\ Len(sentences) = Cardinality(Boundaries) + 1
        /\ \A a \in SentenceStarts :
              sentences[Cardinality({x \in SentenceStarts : x < a}) + 1]
                  = SubSeq(Trimmed, a, SentenceEnd(a))
        /\ \A k \in 1..(Len(sentences) - 1) :
              sentences[k][Len(sentences[k])] \in {".", "!", "?"}
        /\ \A k \in DOMAIN sentences :
              sentences[k] # <<>> =>
                  /\ sentences[k][1] \notin {" ", "\n", "\t"}
                  /\ sentences[k][Len(sentences[k])] \notin {" ", "\n", "\t"}

\* a text with a run of two whitespace characters after a full stop, other
\* whitespace that is no boundary, and whitespace at an end
C17_Witness ==
    /\ IsSentence /\ pc = "sent_loop"
    /\ Len(sentences) = 2
    /\ Len(text) > Len(Trimmed)
    /\ \E p \in Boundaries : AfterRun(p) >= p + 2

(* C19: CharSplitter.split and TokenSplitter.split terminate for every     *)
(* chunk_size >= 1 and overlap >= 0, also with overlap >= chunk_size: the  *)
(* window start strictly increases from one pass of the loop to the next   *)
(* and at most len(input) chunks are emitted (termination is that of a     *)
(* thread that runs, not of one suspended in favour of another thread).    *)
C19_ClampedTermination ==
    /\ (pc \in {"char_loop", "token_loop"} /\ Scheduled
          /\ splitter.chunk_size >= 1 /\ splitter.overlap >= 0) ~> Returned
    /\ [][(pc \in {"char_loop", "token_loop"} /\ pc' = pc /\ other' = other
             /\ splitter.chunk_size >= 1 /\ splitter.overlap >= 0)
            => i' > i]_vars
    /\ []((pc \in {"char_loop", "token_loop", "done"}
             /\ (IsChar \/ IsToken)
             /\ splitter.chunk_size >= 1 /\ splitter.overlap >= 0)
            => Len(chunks) <= Len(Units))

\* a split with overlap > chunk_size that emitted one chunk per unit
C19_Witness ==
    /\ Returned /\ IsChar
    /\ splitter.chunk_size >= 1
    /\ splitter.overlap > splitter.chunk_size
    /\ Len(ret) >= 3
    /\ Len(ret) = Len(text)

(* C20: for CharSplitter and TokenSplitter with 0 <= overlap < chunk_size  *)
(* no unit of the input is lost: every index of the input lies inside an   *)
(* emitted chunk, the last chunk ends at the end of the input, and every   *)
(* window start that was not emitted lies inside the last chunk.           *)
C20_NothingLost ==
    (Returned /\ (IsChar \/ IsToken) /\ Valid) =>
        LET n     == Len(Units)
            step  == splitter.chunk_size - splitter.overlap
            U     == UnitChunks
            lo(k) == (k - 1) * step
            hi(k) == (k - 1) * step + Len(U[k])
        IN  /\ \A k \in DOMAIN U : U[k] = SubSeq(Units, lo(k) + 1, hi(k))
            /\ \A x \in 1..n : \E k \in DOMAIN U : lo(k) < x /\ x <= hi(k)
            /\ n >= 1 => hi(Len(U)) = n
            /\ \A k \in (Len(U) + 1)..n :
                  lo(k) < n => lo(k) >= lo(Len(U)) /\ hi(Len(U)) = n

\* an overlapping split that stopped before further window starts
C20_Witness ==
    /\ Returned /\ IsChar /\ Valid
    /\ splitter.overlap > 0
    /\ Len(ret) >= 2
    /\ Len(ret) * (splitter.chunk_size - splitter.overlap) < Len(text)

----------------------------------------------------------------------------
(***************************************************************************)
(* C12: split is a deterministic pure function of (strategy, chunk_size,   *)
(* overlap, text).  In a session all splitters are built with the same     *)
(* arguments; memo holds the result of every call that ran alone, with     *)
(* the number of the splitter it ran on.  Any two recorded results for     *)
(* the same text are equal (on one splitter, whatever was split in         *)
(* between, and on the two splitters), a call that has just returned       *)
(* agrees with every recorded result for its text, and no step of a        *)
(* split call changes the splitter object.                                 *)
(***************************************************************************)
C12_Deterministic ==
    /\ [](\A m \in memo, n \in memo : m.text = n.text => m.ret = n.ret)
    /\ []((pc = "done" /\ InSession)
            => \A m \in memo : m.text = text => m.ret = ret)
    /\ [][(/\ pc \in {"built", "char_loop", "token_loop", "sent_loop",
                      "overlap_loop"}
           /\ pc' \in {"char_loop", "token_loop", "sent_loop",
                       "overlap_loop", "done"}
           /\ other' = other)
          => splitter' = splitter]_vars

\* the last splitter returned, for a text it had already split and after
\* splitting another text, the chunks the first splitter returned
C12_Witness ==
    /\ pc = "done"
    /\ InSession
    /\ instances = MaxSplitters
    /\ Len(ret) > 1
    /\ \E m \in memo : m.instance = 1 /\ m.text = text /\ m.ret = ret
    /\ \E m \in memo : m.instance = MaxSplitters /\ m.text = text
    /\ \E m \in memo : m.instance = MaxSplitters /\ m.text # text

\* the result of the split call of a frame when it ran alone
Alone(t) == {m.ret : m \in {n \in memo : n.text = t}}

\* what a frame has produced so far agrees with every result in solo
FrameAgrees(f, solo) ==
    \A r \in solo :
        /\ f.pc = "done" => f.ret = r
        /\ f.pc \in {"char_loop", "token_loop"} => IsPrefix(f.chunks, r)
        /\ f.pc = "overlap_loop" => IsPrefix(f.overlapped, r)
        /\ (f.pc = "sent_loop" /\ splitter.overlap = 0)
              => IsPrefix(f.chunks, r)

\* the frame of the running thread
Running ==
    [pc |-> pc, text |-> text, tokens |-> tokens, sentences |-> sentences,
     i |-> i, current |-> current, chunks |-> chunks,
     chunk_tokens |-> chunk_tokens, overlapped |-> overlapped, ret |-> ret]

(***************************************************************************)
(* C13: two split calls on the same splitter instance, interleaved at      *)
(* every step, each return exactly what the same call returned when it     *)
(* ran alone, and what each has produced at any moment is a prefix of      *)
(* that result; the steps of the two calls leave the instance unchanged.   *)
(***************************************************************************)
C13_ConcurrentSplit ==
    /\ [](other.pc # "none"
            => /\ Alone(text) # {} \/ pc = "built"
               /\ FrameAgrees(Running, Alone(text))
               /\ FrameAgrees(other, Alone(other.text)))
    /\ [][other.pc # "none" => splitter' = splitter]_vars

\* both calls are in the middle of their loops, on different texts, each
\* with chunks of its own
C13_Witness ==
    /\ other.pc \in {"char_loop", "token_loop", "sent_loop", "overlap_loop"}
    /\ pc \in {"char_loop", "token_loop", "sent_loop", "overlap_loop"}
    /\ text # other.text
    /\ chunks # <<>>
    /\ other.chunks # <<>>
    /\ i > 0
    /\ other.i > 0
    /\ chunks # other.chunks

\* the configured strategy name is none of the three, in any case
InvalidStrategy ==
    LET name == pipeline.config.splitter_type
    IN  [k \in 1..Len(name) |-> LowerChar(name[k])]
            \notin {Str_token, Str_char, Str_sentence}

(***************************************************************************)
(* C14: when EvaluationPipeline is constructed with an invalid strategy    *)
(* name, the only thing that happens is that build_splitter raises its     *)
(* ValueError out of the constructor: no pipeline object exists, so run    *)
(* is never entered, no file is loaded, no loader is invoked, no text is   *)
(* split, generate_suite is never called and nothing is returned.          *)
(***************************************************************************)
C14_FailFast ==
    (pipeline.state # "none" /\ InvalidStrategy)
        => /\ pipeline.state \in {"constructing", "failed"}
           /\ pc \in {"init", "failed"}
           /\ (pc = "failed") = (pipeline.state = "failed")
           /\ pipeline.state = "failed"
                 => /\ pipeline.raised = "ValueError"
                    /\ pipeline.message = error
                    /\ IsPrefix(Str_Unsupported, error)
           /\ splitter = NoSplitter
           /\ pipeline.load_calls = 0
           /\ pipeline.loader_calls = <<>>
           /\ pipeline.raw_text = <<>>
           /\ pipeline.gen_calls = 0
           /\ text = <<>> /\ chunks = <<>> /\ ret = <<>>

\* the construction with splitter_type "XML" has failed
C14_Witness ==
    /\ pipeline.state = "failed"
    /\ pipeline.config.splitter_type = Str_XML
    /\ pc = "failed"
    /\ pipeline.raised = "ValueError"

\* load has been called with pipeline.file_path
LoadCalled == pipeline.load_calls > 0

\* what load raised (a later failure of generate_suite is not load's)
LoadRaised ==
    IF pipeline.raised = "Exception" THEN "none" ELSE pipeline.raised

\* the loader registered by default for a lower-cased extension
DefaultLoader(ext) ==
    IF ext \in {Ext_txt, Ext_md} THEN "TxtLoader"
    ELSE IF ext = Ext_pdf THEN "PdfLoader"
    ELSE IF ext = Ext_docx THEN "DocxLoader"
    ELSE "None"

\* the lower-cased extension of the loaded path
LoadedExt == Lower(splitext(pipeline.file_path))

\* the rules of load for a path that does not exist, and for one that
\* exists and has no registered loader
LoadFailures ==
    /\ ~path_exists(pipeline.file_path)
          => /\ LoadRaised = "FileNotFoundError"
             /\ pipeline.message = Str_FileNotFound \o pipeline.file_path
             /\ pipeline.loader_calls = <<>>
    /\ (path_exists(pipeline.file_path) /\ DefaultLoader(LoadedExt) = "None")
          => /\ LoadRaised = "ValueError"
             /\ pipeline.message = Str_NoLoader \o LoadedExt
             /\ pipeline.loader_calls = <<>>
    /\ LoadRaised # "none"
          => pipeline.state = "failed" /\ pipeline.raw_text = <<>>

\* load invoked exactly the loader registered for the lower-cased extension
LoaderInvoked ==
    pipeline.loader_calls =
        <<[loader |-> DefaultLoader(LoadedExt),
           file_path |-> pipeline.file_path]>>

(***************************************************************************)
(* C18 as stated: load returns the string of the registered loader or      *)
(* fails in one of two ways, file-not-found for a missing path (whatever   *)
(* its extension) and unsupported-file-type for an existing path without   *)
(* a registered loader, no loader being invoked in either; so for an       *)
(* existing path with a registered loader it returns.                      *)
(***************************************************************************)
C18_LoadTwoFailures ==
    LoadCalled
        => /\ LoadFailures
           /\ LoadRaised \in {"none", "FileNotFoundError", "ValueError"}
           /\ (path_exists(pipeline.file_path)
                 /\ DefaultLoader(LoadedExt) # "None")
                 => /\ LoadRaised = "none"
                    /\ LoaderInvoked
                    /\ pipeline.raw_text = Content(pipeline.file_path)

(***************************************************************************)
(* C18: load fails with file-not-found for a missing path (whatever its    *)
(* extension) and with unsupported-file-type for an existing path without  *)
(* a registered loader, no loader being invoked in either; for an          *)
(* existing path with a registered loader it invokes exactly that loader   *)
(* once and either returns the loader's string or fails with the           *)
(* ImportError the loader raised (PdfLoader, DocxLoader without their      *)
(* package).                                                               *)
(***************************************************************************)
C18_Load ==
    LoadCalled
        => /\ LoadFailures
           /\ (path_exists(pipeline.file_path)
                 /\ DefaultLoader(LoadedExt) # "None")
                 => /\ LoaderInvoked
                    /\ \/ /\ LoadRaised = "none"
                          /\ pipeline.raw_text = Content(pipeline.file_path)
                       \/ /\ LoadRaised = "ImportError"
                          /\ DefaultLoader(LoadedExt)
                                 \in {"PdfLoader", "DocxLoader"}
                          /\ pipeline.message \in
                                 {Str_NoPyMuPDF, Str_NoPythonDocx}

\* "a.MD" was loaded by the loader registered for ".md"
C18_Witness ==
    /\ LoadCalled
    /\ pipeline.file_path = Path_a_MD
    /\ pipeline.loader_calls =
           <<[loader |-> "TxtLoader", file_path |-> Path_a_MD]>>
    /\ pipeline.raw_text = TextShort
    /\ pipeline.state = "loaded"

----------------------------------------------------------------------------
\* 0-based input position just after the k-th emitted window (k from 1),
\* the windows starting  max(1, chunk_size - overlap)  apart
WindowEnd(k) ==
    LET d == splitter.chunk_size - splitter.overlap
        stride == IF d >= 1 THEN d ELSE 1
    IN  (k - 1) * stride + Len(UnitChunks[k])

(***************************************************************************)
(* C21: for CharSplitter and TokenSplitter with chunk_size >= 1 (and       *)
(* overlap >= 0) every emitted chunk is a non-empty window of the input    *)
(* and every chunk after the first ends at a later input position than     *)
(* the chunk before it: it covers a position that no earlier chunk         *)
(* covers, and the last chunk is never contained in the one before it.     *)
(***************************************************************************)
C21_NoRedundantChunk ==
    (Returned /\ (IsChar \/ IsToken)
       /\ splitter.chunk_size >= 1 /\ splitter.overlap >= 0)
        => /\ \A k \in 1..Len(UnitChunks) :
                  /\ Len(UnitChunks[k]) >= 1
                  /\ WindowEnd(k) <= Len(Units)
                  /\ UnitChunks[k] =
                         SubSeq(Units, WindowEnd(k) - Len(UnitChunks[k]) + 1,
                                WindowEnd(k))
           /\ \A k \in 2..Len(UnitChunks) : WindowEnd(k) > WindowEnd(k - 1)

\* overlapping windows whose last one is shorter than chunk_size and still
\* reaches beyond the one before it
C21_Witness ==
    /\ Returned
    /\ IsChar
    /\ splitter.overlap >= 1
    /\ splitter.overlap < splitter.chunk_size
    /\ Len(ret) >= 3
    /\ Len(ret[Len(ret)]) < splitter.chunk_size
    /\ WindowEnd(Len(ret)) = Len(text)
    /\ WindowEnd(Len(ret) - 1) < Len(text)

----------------------------------------------------------------------------
\* the sentences of the input that make up output chunk k (overlap = 0):
\* as many as the chunk holds, from where chunk k - 1 left off
SentencesOf(k) ==
    SubSeq(InputSentences, FirstSentence(k),
           FirstSentence(k) + SentenceCount(ret[k]) - 1)

(***************************************************************************)
(* C22: SentenceSplitter with overlap = 0 preserves content and order:     *)
(* the output chunks are consecutive groups of the non-empty sentences of  *)
(* the input, each group joined by single spaces, the groups follow one    *)
(* another in input order and use up all sentences (every sentence is in   *)
(* exactly one chunk), and the chunks joined by single spaces are the      *)
(* sentences joined by single spaces.                                      *)
(***************************************************************************)
C22_ContentPreserved ==
    (Returned /\ IsSentence /\ splitter.overlap = 0)
        => /\ \A k \in 1..Len(ret) :
                  /\ FirstSentence(k) + SentenceCount(ret[k]) - 1
                         <= Len(InputSentences)
                  /\ ret[k] = JoinSpace(SentencesOf(k))
           /\ FirstSentence(Len(ret) + 1) = Len(InputSentences) + 1
           /\ JoinSpace(ret) = JoinSpace(InputSentences)

\* three or more sentences in two or more chunks, the first chunk holding
\* at least two of them
C22_Witness ==
    /\ Returned
    /\ IsSentence
    /\ splitter.overlap = 0
    /\ Len(InputSentences) >= 3
    /\ Len(ret) >= 2
    /\ SentenceCount(ret[1]) >= 2
    /\ JoinSpace(ret) = JoinSpace(InputSentences)

----------------------------------------------------------------------------
\* c and d are the same character or the two cases of one letter
SameLetter(c, d) ==
    \/ c = d
    \/ \E k \in 1..Len(LowerLetters) :
           {c, d} = {LowerLetters[k], UpperLetters[k]}

\* name is an upper/lower-case spelling of word
Spells(name, word) ==
    /\ Len(name) = Len(word)
    /\ \A k \in 1..Len(name) : SameLetter(name[k], word[k])

(***************************************************************************)
(* C23: build_splitter matches the strategy name case-insensitively: a     *)
(* name that spells "token", "char" or "sentence" in any mix of upper and  *)
(* lower case builds the TokenSplitter, CharSplitter or SentenceSplitter   *)
(* that the lower-case name builds, with the given chunk_size and          *)
(* overlap, and a name is rejected exactly when it spells none of the      *)
(* three.                                                                  *)
(***************************************************************************)
C23_CaseInsensitive ==
    pc \in {"built", "failed"} =>
        LET name == args.splitter_type
        IN  /\ Spells(name, Str_token) => splitter.kind = "TokenSplitter"
            /\ Spells(name, Str_char) => splitter.kind = "CharSplitter"
            /\ Spells(name, Str_sentence)
                  => splitter.kind = "SentenceSplitter"
            /\ (pc = "failed")
                  = (\A w \in {Str_token, Str_char, Str_sentence} :
                         ~Spells(name, w))
            /\ pc = "built"
                  => /\ splitter.chunk_size = args.chunk_size
                     /\ splitter.overlap = args.overlap
                     /\ splitter.kind # "none"

\* "SeNtEnCe" has built a SentenceSplitter
C23_Witness ==
    /\ pc = "built"
    /\ args.splitter_type = Str_SeNtEnCe
    /\ splitter.kind = "SentenceSplitter"
    /\ splitter.chunk_size = args.chunk_size
    /\ splitter.overlap = args.overlap

====
